---- MODULE Spec2Model ----
(***************************************************************************)
(* LocalEnvironment of dbt-duckdb (environments/local.py): the shared      *)
(* DuckDB connection, its reference count and lock, the registered-        *)
(* dataframe cache, the load_source / store_relation workflows and the     *)
(* cursor wrapper's execute, run by several threads one source statement   *)
(* at a time.                                                              *)
(***************************************************************************)
EXTENDS Integers, Sequences, FiniteSets, TLC

\* ------------------------------------------------------------------ bounds
NThreads == 2
MaxCalls == 4
MaxLoadCalls == 2
MaxExecCalls == 3

Threads == 1..NThreads
\* the threads that call load_source and store_relation
Loaders == {1}

\* ------------------------------------------------------------------ values
None == 0
NoDf == "no_df"
DFs == {"df1", "df2"}
NoCfg == [kind |-> "none"]
NoVal == <<>>

\* The plugin registry built by initialize_plugins; "nope" is a name that
\* is not registered.
Plugins == {"plain", "upstream"}
\* self._plugins.keys(): the registered names in insertion order
PluginKeys == <<"plain", "upstream">>
PluginNames == Plugins \cup {"nope"}

DefaultDb == "m"
Databases == {"", "x"}
SaveModes == {"", "ignore", "error_if_exists"}
MetaMaterializations == {"", "view"}

SourceConfigs ==
    [kind : {"source"}, schema : {"s"}, identifier : {"t"},
     database : Databases, save_mode : SaveModes,
     materialization : MetaMaterializations]

TargetConfigs ==
    [kind : {"target"}, schema : {"s"}, identifier : {"t"},
     database : Databases, save_mode : SaveModes,
     materialization : MetaMaterializations, format : {""}]

\* execute(sql, bindings=None): the statements and the bindings a caller
\* passes; NoBindings is the default None, and an empty list is a list
Sqls == {"q1", "q2"}
NoBindings == [kind |-> "None"]
Bindings == {NoBindings} \cup [kind : {"list"}, items : {<<>>, <<"p">>}]

\* what the wrapped cursor's execute does when called: it returns, or it
\* raises a RuntimeError or an exception of another class, with these args
ErrorArgs == {<<>>, <<"m1">>, <<"m2">>}
RawCursors ==
    [kind : {"returns"}, args : {<<>>}]
    \cup [kind : {"RuntimeError", "OtherError"}, args : ErrorArgs]

\* credentials: keep_open, path, is_motherduck
Credentials ==
    [keep_open : BOOLEAN, path : {":memory:", "f.duckdb"}, is_motherduck : BOOLEAN]

VARIABLES
    conn,           \* self.conn: None or the id of a connection object
    connOpen,       \* ids of the connection objects that are not closed
    created,        \* number of connections initialize_db has returned
    closes,         \* number of close() calls made on connection objects
    handle_count,   \* self.handle_count
    keep_open,      \* self._keep_open
    lock,           \* self.lock (RLock): owning thread (None if free) and depth
    REGISTERED_DF,  \* self._REGISTERED_DF: binding name -> dataframe
    catalog,        \* relations of the database: name -> kind and view source
    calls,          \* number of top-level calls made so far
    wellFormed,     \* no ConnectionHandle has been closed twice so far
    misuse,         \* a cursor was requested from a null or closed connection
    pc,             \* per thread: the statement it is at
    op,             \* per thread: the top-level call it is in (or made last)
    ret,            \* per thread: outcome of its last finished call
    cfg,            \* per thread: the arguments of its call (plugin and config,
                    \* or the statement, bindings and wrapped cursor of execute)
    df,             \* per thread: the dataframe plugin.load returned
    curDf,          \* per thread: bindings of the cursor it created last and holds
    delta,          \* per thread: handle_count change made by its current call
    own,            \* per thread: ConnectionHandles it got from handle(), open
    val,            \* per thread: what its last call returned, or the message
                    \* of the exception that ended it
    log             \* per thread: the engine and plugin operations its current
                    \* (or last) load_source / store_relation call has invoked

vars == <<conn, connOpen, created, closes, handle_count, keep_open, lock,
          REGISTERED_DF, catalog, calls, wellFormed, misuse,
          pc, op, ret, cfg, df, curDf, delta, own, val, log>>

envVars == <<conn, connOpen, created, closes, handle_count, lock>>
dataVars == <<REGISTERED_DF, catalog>>
localVars == <<curDf, delta, own, log>>

\* ------------------------------------------------------------------ helpers
\* LocalEnvironment.__init__: the keep-open flag
KeepOpenOf(c) == c.keep_open \/ c.path = ":memory:" \/ c.is_motherduck

\* mutant: leaving a with block does not release the lock
ReleaseNever == lock

\* threading.RLock: acquire is possible when free or owned by the caller
CanAcquire(t) == lock.owner = None \/ lock.owner = t
Acquire(t) == [owner |-> t, depth |-> lock.depth + 1]
Release == IF lock.depth = 1 THEN [owner |-> None, depth |-> 0]
           ELSE [owner |-> lock.owner, depth |-> lock.depth - 1]
LockFree == lock.owner = None

\* "a.b" is the sequence of its characters
Join(parts) ==
    LET RECURSIVE J(_)
        J(i) == IF i > Len(parts) THEN <<>>
                ELSE IF i = 1 THEN <<parts[1]>> \o J(2)
                ELSE <<".", parts[i]>> \o J(i + 1)
    IN J(1)

\* SourceConfig.table_name(): database.schema.identifier, database if set
TableName(c) ==
    IF c.database # "" THEN Join(<<c.database, c.schema, c.identifier>>)
    ELSE Join(<<c.schema, c.identifier>>)

\* source_table_name.replace(".", "_") + "_df"
DfName(c) ==
    LET n == TableName(c)
    IN [i \in 1..Len(n) |-> IF n[i] = "." THEN "_" ELSE n[i]] \o <<"_", "d", "f">>

\* source_config.get("save_mode", "overwrite")
SaveMode(c) == IF c.save_mode = "" THEN "overwrite" ELSE c.save_mode

\* plugin.default_materialization()
DefaultMaterialization(p) == "table"

\* source_config.meta.get("materialization", plugin.default_materialization())
Materialization(p, c) ==
    IF c.materialization = "" THEN DefaultMaterialization(p) ELSE c.materialization

\* the relation a create-or-replace of table_name() writes
Relation(c) ==
    <<IF c.database # "" THEN c.database ELSE DefaultDb, c.schema, c.identifier>>

\* the information_schema.tables query of load_source
MatchingRelations(cat, c) ==
    {r \in DOMAIN cat :
        /\ r[2] = c.schema
        /\ r[3] = c.identifier
        /\ (c.database # "" => r[1] = c.database)}

\* load_source: if cursor.execute(q, params).fetchone()[0]
RelationExists(c) == MatchingRelations(catalog, c) # {}

\* plugin.can_be_upstream_referenced()
CanBeUpstreamReferenced(p) == p = "upstream"

\* plugin.adapt_target_config(target_config): fills in the file format
AdaptTargetConfig(p, c) ==
    [c EXCEPT !.format = IF c.format = "" THEN "parquet" ELSE c.format]

\* plugin.create_source_config(target_config)
CreateSourceConfig(p, c) ==
    [kind |-> "source", schema |-> c.schema, identifier |-> c.identifier,
     database |-> c.database, save_mode |-> c.save_mode,
     materialization |-> c.materialization]

\* initialize_cursor(creds, cursor, plugins, registered_df): the bindings
\* the new cursor is configured with
InitializeCursor(registered) == registered

\* a call of thread t ends (return or uncaught exception) with outcome r,
\* carrying the value or message v, and its locals (the configs and the
\* dataframe) are gone
FinishWith(t, r, v) ==
    /\ pc' = [pc EXCEPT ![t] = "idle"]
    /\ ret' = [ret EXCEPT ![t] = r]
    /\ val' = [val EXCEPT ![t] = v]
    /\ cfg' = [cfg EXCEPT ![t] = NoCfg]
    /\ df' = [df EXCEPT ![t] = NoDf]

\* a call of thread t ends with outcome r and nothing to carry
Finish(t, r) == FinishWith(t, r, NoVal)

\* thread t goes on to statement l
Goto(t, l) ==
    /\ pc' = [pc EXCEPT ![t] = l]
    /\ UNCHANGED <<ret, val, cfg, df>>

\* ------------------------------------------------------------------ Init
Init ==
    /\ conn = None
    /\ connOpen = {}
    /\ created = 0
    /\ closes = 0
    /\ handle_count = 0
    /\ \E c \in Credentials : keep_open = KeepOpenOf(c)
    /\ lock = [owner |-> None, depth |-> 0]
    /\ REGISTERED_DF = <<>>
    /\ catalog = <<>>
    /\ calls = 0
    /\ wellFormed = TRUE
    /\ misuse = FALSE
    /\ pc = [t \in Threads |-> "idle"]
    /\ op = [t \in Threads |-> "none"]
    /\ ret = [t \in Threads |-> "none"]
    /\ cfg = [t \in Threads |-> NoCfg]
    /\ df = [t \in Threads |-> NoDf]
    /\ curDf = [t \in Threads |-> <<>>]
    /\ delta = [t \in Threads |-> 0]
    /\ own = [t \in Threads |-> 0]
    /\ val = [t \in Threads |-> NoVal]
    /\ log = [t \in Threads |-> <<>>]

\* ------------------------------------------------------------------ handle()
\* A caller asks for a ConnectionHandle.
CallHandle(t) ==
    /\ pc[t] = "idle"
    /\ pc' = [pc EXCEPT ![t] = "h_lock"]
    /\ op' = [op EXCEPT ![t] = "handle"]
    /\ ret' = [ret EXCEPT ![t] = "none"]
    /\ val' = [val EXCEPT ![t] = NoVal]
    /\ log' = [log EXCEPT ![t] = <<>>]
    /\ delta' = [delta EXCEPT ![t] = 0]
    /\ calls' = calls + 1
    /\ UNCHANGED <<envVars, dataVars, keep_open, wellFormed, misuse, cfg, df, curDf, own>>

\* handle(): with self.lock
HandleLock(t) ==
    /\ pc[t] = "h_lock"
    /\ CanAcquire(t)
    /\ lock' = Acquire(t)
    /\ Goto(t, "h_init")
    /\ UNCHANGED <<conn, connOpen, created, closes, handle_count, dataVars, keep_open,
                   calls, wellFormed, misuse, op, localVars>>

\* mutant: handle() opens a connection on every call
NeedsInitAlways(c) == TRUE

\* handle(): if self.conn is None
NeedsInit(c) == c = None

\* handle(): if self.conn is None: self.conn = self.initialize_db(...)
\* initialize_db either returns a new connection or raises; the exception
\* leaves the with block, which releases the lock.
HandleInit(t) ==
    /\ pc[t] = "h_init"
    /\ \/ /\ ~NeedsInit(conn)
          /\ Goto(t, "h_inc")
          /\ UNCHANGED <<conn, connOpen, created, lock>>
       \/ /\ NeedsInit(conn)
          /\ created' = created + 1
          /\ conn' = created + 1
          /\ connOpen' = connOpen \cup {created + 1}
          /\ Goto(t, "h_inc")
          /\ UNCHANGED lock
       \/ /\ NeedsInit(conn)
          /\ lock' = Release
          /\ Finish(t, "InitError")
          /\ UNCHANGED <<conn, connOpen, created>>
    /\ UNCHANGED <<closes, handle_count, dataVars, keep_open, calls, wellFormed,
                   misuse, op, localVars>>

\* handle(): self.handle_count += 1
Incremented(n) == n + 1

\* handle(): self.handle_count += 1, end of the with block
HandleInc(t) ==
    /\ pc[t] = "h_inc"
    /\ handle_count' = Incremented(handle_count)
    /\ delta' = [delta EXCEPT ![t] = @ + 1]
    /\ lock' = Release
    /\ Goto(t, "h_cursor")
    /\ UNCHANGED <<conn, connOpen, created, closes, dataVars, keep_open, calls,
                   wellFormed, misuse, op, curDf, own, log>>

\* where handle() returns to, by the call it was made from
AfterHandle(o) ==
    CASE o = "load" -> "ls_check"
      [] o = "store_load" -> "ls_check"
      [] o = "store" -> "sr_store"
      [] OTHER -> "idle"

\* handle(): initialize_cursor(creds, self.conn.cursor(), plugins,
\* registered_df) and the return of the wrapper. self.conn is read outside
\* the lock: None has no cursor(), a closed connection may refuse one or
\* hand one out, and initialize_cursor may raise.
HandleCursor(t) ==
    /\ pc[t] = "h_cursor"
    /\ \/ /\ conn # None
          /\ misuse' = (misuse \/ conn \notin connOpen)
          /\ curDf' = [curDf EXCEPT ![t] = InitializeCursor(REGISTERED_DF)]
          /\ IF op[t] = "handle"
             THEN Finish(t, "handle") /\ own' = [own EXCEPT ![t] = @ + 1]
             ELSE Goto(t, AfterHandle(op[t])) /\ UNCHANGED own
       \/ /\ conn \in connOpen
          /\ Finish(t, "CursorError")
          /\ UNCHANGED <<curDf, own, misuse>>
       \/ /\ conn \notin connOpen
          /\ misuse' = TRUE
          /\ Finish(t, IF conn = None THEN "AttributeError" ELSE "ConnectionError")
          /\ UNCHANGED <<curDf, own>>
    /\ UNCHANGED <<envVars, dataVars, keep_open, calls, wellFormed, op, delta, log>>

\* ------------------------------------------------------------------ close
\* A caller closes a ConnectionHandle it got from handle().
CallHandleClose(t) ==
    /\ pc[t] = "idle"
    /\ own[t] > 0
    /\ own' = [own EXCEPT ![t] = @ - 1]
    /\ pc' = [pc EXCEPT ![t] = "hc_cursor"]
    /\ op' = [op EXCEPT ![t] = "hclose"]
    /\ ret' = [ret EXCEPT ![t] = "none"]
    /\ val' = [val EXCEPT ![t] = NoVal]
    /\ log' = [log EXCEPT ![t] = <<>>]
    /\ delta' = [delta EXCEPT ![t] = 0]
    /\ calls' = calls + 1
    /\ UNCHANGED <<envVars, dataVars, keep_open, wellFormed, misuse, cfg, df, curDf>>

\* A caller closes again the ConnectionHandle it has just closed.
CallHandleCloseAgain(t) ==
    /\ pc[t] = "idle"
    /\ op[t] = "hclose"
    /\ ret[t] = "closed"
    /\ wellFormed' = FALSE
    /\ pc' = [pc EXCEPT ![t] = "hc_cursor"]
    /\ ret' = [ret EXCEPT ![t] = "none"]
    /\ val' = [val EXCEPT ![t] = NoVal]
    /\ log' = [log EXCEPT ![t] = <<>>]
    /\ delta' = [delta EXCEPT ![t] = 0]
    /\ calls' = calls + 1
    /\ UNCHANGED <<envVars, dataVars, keep_open, misuse, op, cfg, df, curDf, own>>

\* DuckDBConnectionWrapper.close: self._cursor.close()
\* (in load_source and store_relation also their own cursor.close())
HandleCloseCursor(t) ==
    /\ pc[t] = "hc_cursor"
    /\ curDf' = [curDf EXCEPT ![t] = <<>>]
    /\ Goto(t, "n_lock")
    /\ UNCHANGED <<envVars, dataVars, keep_open, calls, wellFormed, misuse, op,
                   delta, own, log>>

\* notify_closed: with self.lock
NotifyLock(t) ==
    /\ pc[t] = "n_lock"
    /\ CanAcquire(t)
    /\ lock' = Acquire(t)
    /\ Goto(t, "n_dec")
    /\ UNCHANGED <<conn, connOpen, created, closes, handle_count, dataVars, keep_open,
                   calls, wellFormed, misuse, op, localVars>>

\* where ConnectionHandle.close returns to, by the call it was made from
AfterClose(o) == IF o = "store" THEN "sr_chain" ELSE "idle"
CloseOutcome(o) ==
    CASE o = "load" -> "loaded"
      [] o = "store_load" -> "loaded"
      [] o = "envclose" -> "env_closed"
      [] OTHER -> "closed"

\* the return of close() and, from notify_closed, of ConnectionHandle.close
ReturnFromClose(t) ==
    IF AfterClose(op[t]) = "idle" THEN Finish(t, CloseOutcome(op[t]))
    ELSE Goto(t, AfterClose(op[t]))

\* mutant: notify_closed counts a close twice
DecrementedTwice(n) == n - 2

\* notify_closed: self.handle_count -= 1
Decremented(n) == n - 1

\* mutant: notify_closed tears down at zero whatever keep_open is
TeardownDueIgnoringKeepOpen(n, keep) == n = 0

\* notify_closed: if self.handle_count == 0 and not self._keep_open
TeardownDue(n, keep) == n = 0 /\ ~keep

\* notify_closed: self.handle_count -= 1 and the test for the teardown
NotifyDec(t) ==
    /\ pc[t] = "n_dec"
    /\ handle_count' = Decremented(handle_count)
    /\ delta' = [delta EXCEPT ![t] = @ - 1]
    /\ IF TeardownDue(Decremented(handle_count), keep_open)
       THEN Goto(t, "k_check") /\ UNCHANGED lock
       ELSE ReturnFromClose(t) /\ lock' = Release
    /\ UNCHANGED <<conn, connOpen, created, closes, dataVars, keep_open, calls,
                   wellFormed, misuse, op, curDf, own, log>>

\* A caller calls LocalEnvironment.close() directly.
CallClose(t) ==
    /\ pc[t] = "idle"
    /\ pc' = [pc EXCEPT ![t] = "k_check"]
    /\ op' = [op EXCEPT ![t] = "envclose"]
    /\ ret' = [ret EXCEPT ![t] = "none"]
    /\ val' = [val EXCEPT ![t] = NoVal]
    /\ log' = [log EXCEPT ![t] = <<>>]
    /\ delta' = [delta EXCEPT ![t] = 0]
    /\ calls' = calls + 1
    /\ UNCHANGED <<envVars, dataVars, keep_open, wellFormed, misuse, cfg, df, curDf, own>>

\* mutant: the teardown ends without releasing the lock
LockAfterCloseKeeps(t) == lock

\* the lock after close() ends: notify_closed leaves its with block
LockAfterClose(t) == IF lock.owner = t THEN Release ELSE lock

\* close(): if self.conn:
CloseCheck(t) ==
    /\ pc[t] = "k_check"
    /\ IF conn # None
       THEN Goto(t, "k_close") /\ UNCHANGED lock
       ELSE ReturnFromClose(t) /\ lock' = LockAfterClose(t)
    /\ UNCHANGED <<conn, connOpen, created, closes, handle_count, dataVars, keep_open,
                   calls, wellFormed, misuse, op, localVars>>

\* close(): self.conn.close(); self.conn is read again, and None (set by a
\* concurrent close()) has no close()
CloseConn(t) ==
    /\ pc[t] = "k_close"
    /\ IF conn # None
       THEN /\ connOpen' = connOpen \ {conn}
            /\ closes' = closes + 1
            /\ Goto(t, "k_null")
            /\ UNCHANGED lock
       ELSE /\ Finish(t, "AttributeError")
            /\ lock' = LockAfterClose(t)
            /\ UNCHANGED <<connOpen, closes>>
    /\ UNCHANGED <<conn, created, handle_count, dataVars, keep_open,
                   calls, wellFormed, misuse, op, localVars>>

\* close(): self.conn = None
CloseNull(t) ==
    /\ pc[t] = "k_null"
    /\ conn' = None
    /\ ReturnFromClose(t)
    /\ lock' = LockAfterClose(t)
    /\ UNCHANGED <<connOpen, created, closes, handle_count, dataVars, keep_open,
                   calls, wellFormed, misuse, op, localVars>>

\* ------------------------------------------------------------------ load_source
\* ",".join(self._plugins.keys())
JoinKeys(keys) ==
    LET RECURSIVE J(_)
        J(i) == IF i > Len(keys) THEN <<>>
                ELSE IF i = 1 THEN <<keys[1]>> \o J(2)
                ELSE <<",", keys[i]>> \o J(i + 1)
    IN J(1)

\* mutant: the message does not list the registered names
PluginNotFoundMessageBare(p) ==
    <<"Plugin ", p, " not found; known plugins are: ">>

\* f"Plugin {plugin_name} not found; known plugins are: " + ",".join(keys)
PluginNotFoundMessage(p) ==
    <<"Plugin ", p, " not found; known plugins are: ">> \o JoinKeys(PluginKeys)

\* thread t's call has invoked the operations ops, in this order
Invoked(t, ops) == log' = [log EXCEPT ![t] = @ \o ops]

\* load_source(plugin_name, source_config): the registry lookup and
\* handle = self.handle()
CallLoadSource(t, p, c) ==
    /\ pc[t] = "idle"
    /\ op' = [op EXCEPT ![t] = "load"]
    /\ delta' = [delta EXCEPT ![t] = 0]
    /\ calls' = calls + 1
    /\ log' = [log EXCEPT ![t] = <<>>]
    /\ IF p \in Plugins
       THEN /\ pc' = [pc EXCEPT ![t] = "h_lock"]
            /\ ret' = [ret EXCEPT ![t] = "none"]
            /\ val' = [val EXCEPT ![t] = NoVal]
            /\ cfg' = [cfg EXCEPT ![t] = [plugin |-> p, config |-> c]]
            /\ UNCHANGED df
       ELSE FinishWith(t, "PluginNotFound", PluginNotFoundMessage(p))
    /\ UNCHANGED <<envVars, dataVars, keep_open, wellFormed, misuse, curDf, own>>

\* mutant: load_source queries for the relation in every save mode
NeedsExistenceCheckAlways(c) == TRUE

\* load_source: if save_mode in ("ignore", "error_if_exists")
NeedsExistenceCheck(c) == SaveMode(c) \in {"ignore", "error_if_exists"}

\* load_source: the statements executed before the plugin is asked to load:
\* CREATE SCHEMA IF NOT EXISTS if the schema is set, then the existence query
\* if the save mode asks for it
CheckOps(c) ==
    (IF c.schema # "" THEN <<"create_schema">> ELSE <<>>)
    \o (IF NeedsExistenceCheck(c) THEN <<"exists_query">> ELSE <<>>)

\* load_source: CREATE SCHEMA IF NOT EXISTS, the save mode and the
\* existence query. Either execute may raise.
LoadSourceCheck(t) ==
    /\ pc[t] = "ls_check"
    /\ LET c == cfg[t].config
       IN \/ \E n \in 1..Len(CheckOps(c)) :
                /\ Invoked(t, SubSeq(CheckOps(c), 1, n))
                /\ Finish(t, "DbtRuntimeError")
          \/ /\ NeedsExistenceCheck(c)
             /\ RelationExists(c)
             /\ Invoked(t, CheckOps(c))
             /\ Finish(t, IF SaveMode(c) = "error_if_exists"
                          THEN "AlreadyExists" ELSE "ignored")
          \/ /\ NeedsExistenceCheck(c) => ~RelationExists(c)
             /\ Invoked(t, CheckOps(c))
             /\ Goto(t, "ls_load")
    /\ UNCHANGED <<envVars, dataVars, keep_open, calls, wellFormed, misuse, op,
                   curDf, delta, own>>

\* mutant: load_source never writes the cache
RegisterViewNever(registered, m, name, d) == registered

\* load_source: the write of the registered-dataframe cache
RegisterView(registered, m, name, d) ==
    IF m = "view" THEN (name :> d) @@ registered ELSE registered

\* load_source: cursor.register(df_name, df) binds the dataframe on the
\* cursor the thread holds
Register(bindings, name, d) == (name :> d) @@ bindings

\* load_source: df = plugin.load(source_config); assert df is not None;
\* cursor.register(df_name, df); the cache write for a view.
\* The plugin may raise or return None, and register may raise.
LoadSourceLoad(t) ==
    /\ pc[t] = "ls_load"
    /\ LET c == cfg[t].config
           m == Materialization(cfg[t].plugin, c)
       IN \/ /\ \E e \in {"PluginError", "AssertionError", "RegisterError"} :
                    /\ Finish(t, e)
                    /\ Invoked(t, IF e = "RegisterError"
                                  THEN <<"load", "register">> ELSE <<"load">>)
             /\ UNCHANGED <<REGISTERED_DF, curDf>>
          \/ \E d \in DFs :
                /\ df' = [df EXCEPT ![t] = d]
                /\ curDf' = [curDf EXCEPT ![t] = Register(@, DfName(c), d)]
                /\ REGISTERED_DF' = RegisterView(REGISTERED_DF, m, DfName(c), d)
                /\ Invoked(t, <<"load", "register">>)
                /\ pc' = [pc EXCEPT ![t] = "ls_create"]
                /\ UNCHANGED <<ret, val, cfg>>
    /\ UNCHANGED <<envVars, catalog, keep_open, calls, wellFormed, misuse, op,
                   delta, own>>

\* load_source: CREATE OR REPLACE {materialization} {table} AS SELECT * FROM
\* {df_name}, which may raise, then cursor.close() and handle.close()
LoadSourceCreate(t) ==
    /\ pc[t] = "ls_create"
    /\ Invoked(t, <<"create_or_replace">>)
    /\ LET c == cfg[t].config
           m == Materialization(cfg[t].plugin, c)
       IN \/ /\ Finish(t, "DbtRuntimeError")
             /\ UNCHANGED catalog
          \/ /\ catalog' = (Relation(c) :>
                               [kind |-> m,
                                from |-> IF m = "view" THEN DfName(c) ELSE <<>>])
                           @@ catalog
             /\ Goto(t, "hc_cursor")
    /\ UNCHANGED <<envVars, REGISTERED_DF, keep_open, calls, wellFormed, misuse,
                   op, curDf, delta, own>>

\* ------------------------------------------------------------------ store_relation
\* store_relation(plugin_name, target_config): the registry lookup,
\* plugin.adapt_target_config and handle = self.handle()
CallStoreRelation(t, p, c) ==
    /\ pc[t] = "idle"
    /\ op' = [op EXCEPT ![t] = "store"]
    /\ delta' = [delta EXCEPT ![t] = 0]
    /\ calls' = calls + 1
    /\ IF p \in Plugins
       THEN /\ pc' = [pc EXCEPT ![t] = "h_lock"]
            /\ ret' = [ret EXCEPT ![t] = "none"]
            /\ val' = [val EXCEPT ![t] = NoVal]
            /\ log' = [log EXCEPT ![t] = <<"adapt_target_config">>]
            /\ cfg' = [cfg EXCEPT ![t] =
                          [plugin |-> p, config |-> AdaptTargetConfig(p, c)]]
            /\ UNCHANGED df
       ELSE /\ FinishWith(t, "PluginNotFound", PluginNotFoundMessage(p))
            /\ log' = [log EXCEPT ![t] = <<>>]
    /\ UNCHANGED <<envVars, dataVars, keep_open, wellFormed, misuse, curDf, own>>

\* store_relation: df = cursor.sql(compiled_code); plugin.store(df,
\* target_config, cursor); either may raise. Then cursor.close() and
\* handle.close().
StoreRelationStore(t) ==
    /\ pc[t] = "sr_store"
    /\ \/ /\ Finish(t, "SqlError")
          /\ Invoked(t, <<"sql">>)
       \/ /\ Finish(t, "PluginError")
          /\ Invoked(t, <<"sql", "store">>)
       \/ /\ Goto(t, "hc_cursor")
          /\ Invoked(t, <<"sql", "store">>)
    /\ UNCHANGED <<envVars, dataVars, keep_open, calls, wellFormed, misuse, op,
                   curDf, delta, own>>

\* store_relation: if plugin.can_be_upstream_referenced():
\*     self.load_source(plugin_name, plugin.create_source_config(target_config))
StoreRelationChain(t) ==
    /\ pc[t] = "sr_chain"
    /\ IF CanBeUpstreamReferenced(cfg[t].plugin)
       THEN /\ op' = [op EXCEPT ![t] = "store_load"]
            /\ cfg' = [cfg EXCEPT ![t].config =
                          CreateSourceConfig(cfg[t].plugin, cfg[t].config)]
            /\ Invoked(t, <<"can_be_upstream_referenced", "create_source_config">>)
            /\ pc' = [pc EXCEPT ![t] = "h_lock"]
            /\ UNCHANGED <<ret, val, df>>
       ELSE /\ Finish(t, "stored")
            /\ Invoked(t, <<"can_be_upstream_referenced">>)
            /\ UNCHANGED op
    /\ UNCHANGED <<envVars, dataVars, keep_open, calls, wellFormed, misuse,
                   curDf, delta, own>>

\* ------------------------------------------------------------------ execute
\* str(e) of an exception: "" without args, the argument if there is one
StrOf(args) == IF Len(args) = 0 THEN "" ELSE args[1]

\* self._cursor.execute(*callargs) of the wrapped cursor: its result, which
\* depends on the arguments it was given, or the exception it raises
RawExecute(cur, callargs) ==
    IF cur.kind = "returns" THEN [kind |-> "returned", val |-> <<"result">> \o callargs]
    ELSE [kind |-> cur.kind, val |-> cur.args]

\* mutant: the message of the RuntimeError is dropped
NormalizeDropsMessage(raw) == [kind |-> "DbtRuntimeError", val |-> <<"">>]

\* execute: except RuntimeError as e: raise DbtRuntimeError(str(e))
Normalize(raw) == [kind |-> "DbtRuntimeError", val |-> <<StrOf(raw.val)>>]

\* DuckDBCursorWrapper.execute(sql, bindings)
Execute(cur, sql, bindings) ==
    LET raw == IF bindings = NoBindings
               THEN RawExecute(cur, <<sql>>)
               ELSE RawExecute(cur, <<sql, bindings>>)
    IN IF raw.kind = "RuntimeError" THEN Normalize(raw) ELSE raw

\* A caller that holds a ConnectionHandle calls execute on its cursor.
CallExecute(t, cur, sql, bindings) ==
    /\ pc[t] = "idle"
    /\ own[t] > 0
    /\ pc' = [pc EXCEPT ![t] = "x_exec"]
    /\ op' = [op EXCEPT ![t] = "execute"]
    /\ ret' = [ret EXCEPT ![t] = "none"]
    /\ val' = [val EXCEPT ![t] = NoVal]
    /\ log' = [log EXCEPT ![t] = <<>>]
    /\ delta' = [delta EXCEPT ![t] = 0]
    /\ cfg' = [cfg EXCEPT ![t] = [kind |-> "execute", cursor |-> cur,
                                  sql |-> sql, bindings |-> bindings]]
    /\ calls' = calls + 1
    /\ UNCHANGED <<envVars, dataVars, keep_open, wellFormed, misuse, df, curDf, own>>

\* DuckDBCursorWrapper.execute: the return or the exception
CursorExecute(t) ==
    /\ pc[t] = "x_exec"
    /\ LET r == Execute(cfg[t].cursor, cfg[t].sql, cfg[t].bindings)
       IN FinishWith(t, r.kind, r.val)
    /\ UNCHANGED <<envVars, dataVars, keep_open, calls, wellFormed, misuse, op,
                   localVars>>

\* ------------------------------------------------------------------ specifications
\* the statements of handle(), ConnectionHandle.close() and close()
LifeStep(t) ==
    \/ HandleLock(t)
    \/ HandleInit(t)
    \/ HandleInc(t)
    \/ HandleCursor(t)
    \/ HandleCloseCursor(t)
    \/ NotifyLock(t)
    \/ NotifyDec(t)
    \/ CloseCheck(t)
    \/ CloseConn(t)
    \/ CloseNull(t)

\* the statements of load_source and store_relation
DataStep(t) ==
    \/ LoadSourceCheck(t)
    \/ LoadSourceLoad(t)
    \/ LoadSourceCreate(t)
    \/ StoreRelationStore(t)
    \/ StoreRelationChain(t)

\* a caller starts one of the lifecycle operations
LifeCall(t) ==
    \/ CallHandle(t)
    \/ CallHandleClose(t)
    \/ CallHandleCloseAgain(t)
    \/ CallClose(t)

\* a caller starts load_source or store_relation
DataCall(t) ==
    \/ \E p \in PluginNames, c \in SourceConfigs : CallLoadSource(t, p, c)
    \/ \E p \in PluginNames, c \in TargetConfigs : CallStoreRelation(t, p, c)

\* handle(), ConnectionHandle.close() and close(), called by any thread at
\* any time
NextLife == \E t \in Threads : LifeStep(t) \/ (calls < MaxCalls /\ LifeCall(t))

SpecLife == Init /\ [][NextLife]_vars

\* load_source and store_relation, called by the loader threads, while the
\* other threads open and close handles
NextLoad ==
    \E t \in Threads :
        \/ LifeStep(t)
        \/ DataStep(t)
        \/ calls < MaxLoadCalls /\ t \in Loaders /\ DataCall(t)
        \/ calls < MaxLoadCalls /\ t \notin Loaders /\ CallHandle(t)
        \/ calls < MaxLoadCalls /\ t \notin Loaders /\ CallHandleClose(t)

SpecLoad == Init /\ [][NextLoad]_vars

\* Every thread calls handle() once; when all these calls have returned,
\* every thread closes the ConnectionHandle it got, once.
AllHandlesReturned ==
    \A u \in Threads : op[u] # "none" /\ (op[u] = "handle" => pc[u] = "idle")

NextPhased ==
    \E t \in Threads :
        \/ LifeStep(t)
        \/ op[t] = "none" /\ CallHandle(t)
        \/ AllHandlesReturned /\ CallHandleClose(t)

SpecPhased == Init /\ [][NextPhased]_vars

\* Callers get handles, call execute on their cursors and close the
\* handles.
NextExec ==
    \E t \in Threads :
        \/ LifeStep(t)
        \/ CursorExecute(t)
        \/ calls < MaxExecCalls /\ CallHandle(t)
        \/ calls < MaxExecCalls /\ CallHandleClose(t)
        \/ /\ calls < MaxExecCalls
           /\ \E cur \in RawCursors, sql \in Sqls, b \in Bindings :
                 CallExecute(t, cur, sql, b)

SpecExec == Init /\ [][NextExec]_vars

\* SpecLoad with every thread scheduled again and again: a thread that can
\* take its next statement eventually takes it (engine and plugin calls
\* return).
FairLoad == \A t \in Threads : WF_vars(LifeStep(t) \/ DataStep(t))

SpecLoadFair == SpecLoad /\ FairLoad

\* ------------------------------------------------------------------ claims
\* outcomes that are an exception of handle() or of a close
Failures == {"InitError", "CursorError", "AttributeError", "ConnectionError"}
NoFailure == \A t \in Threads : ret[t] \notin Failures

\* C1: N threads each get a handle and, when all have one, each close it
\* once. As long as no call has failed: initialize_db has made at most one
\* connection; no cursor was asked of a null or closed connection; a
\* connection is closed only when keep_open is false, only once, and only by
\* the close that ends last (every other thread has finished its close, none
\* is inside handle()); and when all have closed, the connection made is
\* closed and null if keep_open is false, and open if it is true.
C1_CreatedOnceClosedOnce ==
    NoFailure =>
        /\ created <= 1
        /\ ~misuse
        /\ closes <= 1
        /\ closes = 1 =>
              /\ ~keep_open
              /\ handle_count = 0
              /\ connOpen = {}
              /\ Cardinality({u \in Threads : ret[u] = "closed"}) >= NThreads - 1
              /\ \A u \in Threads : ret[u] = "closed" \/ pc[u] = "k_null"
        /\ (\A u \in Threads : ret[u] = "closed") =>
              /\ created = 1
              /\ handle_count = 0
              /\ IF keep_open THEN closes = 0 /\ conn = 1 /\ connOpen = {1}
                 ELSE closes = 1 /\ conn = None /\ connOpen = {}

\* C1 witness: all threads have closed their handle, the connection was
\* made once and torn down once.
C1_Witness ==
    /\ \A u \in Threads : op[u] = "hclose" /\ ret[u] = "closed"
    /\ ~keep_open
    /\ created = 1
    /\ closes = 1
    /\ conn = None

\* C2: with the lock free, handle_count = 0 and keep_open false imply that
\* the shared handle is null.
C2_NullWhenUnused ==
    (LockFree /\ handle_count = 0 /\ ~keep_open) => conn = None

\* C3: a cursor is only ever asked of a live shared handle, and the shared
\* handle is neither closed nor null while handle_count > 0.
C3_AliveWhileCounted ==
    /\ ~misuse
    /\ handle_count > 0 => (conn # None /\ conn \in connOpen)

\* C4: while every ConnectionHandle has been closed at most once,
\* handle_count is not negative.
C4_NeverNegative == wellFormed => handle_count >= 0

\* C4 witness: handles were opened and closed, each once, and the count is
\* back at zero.
C4_Witness ==
    /\ wellFormed
    /\ handle_count = 0
    /\ \A t \in Threads : op[t] = "hclose" /\ ret[t] = "closed"

\* thread t leaves its call in this step
Returns(t) == pc[t] # "idle" /\ pc'[t] = "idle"

\* thread t is in load_source (called directly or from store_relation)
InLoadSource(t) == op[t] \in {"load", "store_load"}

\* the ways load_source ends once handle() has returned the handle
LoadExits ==
    {"loaded", "ignored", "AlreadyExists", "DbtRuntimeError", "PluginError",
     "AssertionError", "RegisterError"}

\* C5: load_source with save mode "ignore" that finds a matching relation
\* returns without a plugin load, without a write of the cache or of the
\* database, and with handle_count as it found it.
C5_IgnoreReleasesHandle ==
    [][\A t \in Threads :
          (InLoadSource(t) /\ Returns(t) /\ ret'[t] = "ignored") =>
              /\ SaveMode(cfg[t].config) = "ignore"
              /\ RelationExists(cfg[t].config)
              /\ df[t] = NoDf
              /\ UNCHANGED <<REGISTERED_DF, catalog>>
              /\ delta'[t] = 0]_vars

\* C6: load_source with save mode "error_if_exists" that finds a matching
\* relation raises, with handle_count as it found it; if keep_open is false
\* and nobody else holds or is getting a handle, the shared handle is null.
C6_ErrorIfExistsReleasesHandle ==
    [][\A t \in Threads :
          (/\ InLoadSource(t) /\ pc[t] = "ls_check" /\ Returns(t)
           /\ SaveMode(cfg[t].config) = "error_if_exists"
           /\ RelationExists(cfg[t].config)
           /\ ret'[t] # "DbtRuntimeError") =>
              /\ ret'[t] = "AlreadyExists"
              /\ delta'[t] = 0
              /\ (~keep_open /\ \A u \in Threads \ {t} : pc[u] = "idle" /\ own[u] = 0)
                    => conn' = None]_vars

\* C7: whichever way load_source ends after it got its handle, handle_count
\* is as the call found it.
C7_LoadSourceAlwaysReleases ==
    \A t \in Threads :
        (InLoadSource(t) /\ pc[t] = "idle" /\ ret[t] \in LoadExits) => delta[t] = 0

\* C8: whichever way the store step of store_relation ends after it got its
\* handle (the query or plugin.store raised, or the handle was closed),
\* handle_count is as the call found it.
C8_StoreRelationAlwaysReleases ==
    \A t \in Threads :
        (/\ op[t] = "store"
         /\ \/ pc[t] = "sr_chain"
            \/ pc[t] = "idle" /\ ret[t] \in {"SqlError", "PluginError", "stored"})
        => delta[t] = 0

\* a new cursor can read the relation r: a view needs its dataframe bound
Readable(r, cat, registered) ==
    /\ r \in DOMAIN cat
    /\ cat[r].kind = "view" => cat[r].from \in DOMAIN InitializeCursor(registered)

\* C9: store_relation with an upstream-referenceable plugin calls
\* load_source with create_source_config(adapted target config), and returns
\* normally only through it; when it has returned normally, whether the
\* chained load wrote the relation or found a match in mode "ignore", the
\* relation of that config is in the database and readable by a new cursor.
\* A plugin that is not upstream-referenceable returns without the load.
C9_StoreThenLoad ==
    [][\A t \in Threads :
          /\ (pc[t] = "sr_chain" /\ pc'[t] # "sr_chain"
              /\ CanBeUpstreamReferenced(cfg[t].plugin)) =>
                 /\ op'[t] = "store_load"
                 /\ pc'[t] = "h_lock"
                 /\ cfg[t].config.format # ""
                 /\ cfg'[t].config = CreateSourceConfig(cfg[t].plugin, cfg[t].config)
          /\ (op[t] \in {"store", "store_load"} /\ Returns(t)
              /\ ret'[t] \in {"stored", "loaded", "ignored"}) =>
                 IF CanBeUpstreamReferenced(cfg[t].plugin)
                 THEN /\ op[t] = "store_load"
                      /\ Readable(Relation(cfg[t].config), catalog', REGISTERED_DF')
                 ELSE op[t] = "store" /\ ret'[t] = "stored"]_vars

\* C10: a successful load_source of a view leaves its binding name bound in
\* the cache to the dataframe it loaded; the cache changes only when a view
\* load registers, and never loses a binding; every cursor handle() returns
\* has all bindings of the cache.
C10_ViewRebound ==
    [][/\ \A t \in Threads :
             (/\ InLoadSource(t) /\ Returns(t) /\ ret'[t] = "loaded"
              /\ Materialization(cfg[t].plugin, cfg[t].config) = "view") =>
                 /\ DfName(cfg[t].config) \in DOMAIN REGISTERED_DF'
                 /\ REGISTERED_DF'[DfName(cfg[t].config)] = df[t]
       /\ REGISTERED_DF' # REGISTERED_DF =>
             \E t \in Threads :
                 /\ pc[t] = "ls_load"
                 /\ Materialization(cfg[t].plugin, cfg[t].config) = "view"
                 /\ REGISTERED_DF' = (DfName(cfg[t].config) :> df'[t]) @@ REGISTERED_DF
       /\ \A t \in Threads :
             (pc[t] = "h_cursor" /\ pc'[t] # "h_cursor" /\ ret'[t] \notin Failures) =>
                 \A n \in DOMAIN REGISTERED_DF :
                     n \in DOMAIN curDf'[t] /\ curDf'[t][n] = REGISTERED_DF[n]
      ]_vars

\* C10 witness: after a view was loaded and the shared handle torn down, a
\* thread got a handle on a new connection whose cursor has the binding.
C10_Witness ==
    /\ \E t \in Threads : op[t] = "load" /\ pc[t] = "idle" /\ ret[t] = "loaded"
    /\ REGISTERED_DF # <<>>
    /\ created = 2
    /\ \E u \in Threads :
          /\ op[u] = "handle" /\ pc[u] = "idle" /\ ret[u] = "handle"
          /\ curDf[u] = REGISTERED_DF

\* the names a PluginNotFound message lists after its prefix, and whether
\* the list is well formed (names separated by single commas)
ListedPart(m) == SubSeq(m, 4, Len(m))
ListedNames(m) ==
    {ListedPart(m)[i] : i \in {j \in 1..Len(ListedPart(m)) : j % 2 = 1}}
ListsEachOnce(m, names) ==
    /\ Len(m) >= 3
    /\ Len(ListedPart(m)) = 2 * Cardinality(names) - 1
    /\ ListedNames(m) = names
    /\ \A i \in 1..Len(ListedPart(m)) : i % 2 = 0 => ListedPart(m)[i] = ","

\* C11: load_source and store_relation go on to handle() only with a plugin
\* name of the registry; with any other name the call ends at once with
\* PluginNotFound, whose message names the plugin asked for and lists the
\* registered names, each once; that step leaves handle_count, the shared
\* handle, the lock and the cache as they were, has taken no handle and has
\* invoked no engine or plugin operation.
C11_UnknownPluginFailsFast ==
    [][/\ \A t \in Threads :
             /\ (pc[t] = "idle" /\ pc'[t] = "h_lock" /\ op'[t] \in {"load", "store"}) =>
                   cfg'[t].plugin \in Plugins
             /\ (ret'[t] = "PluginNotFound" /\ ret[t] # "PluginNotFound") =>
                   calls' = calls + 1 /\ pc' = pc
       /\ (calls' = calls + 1 /\ pc' = pc) =>
             /\ UNCHANGED <<handle_count, conn, connOpen, created, closes, lock,
                            REGISTERED_DF, catalog, own, curDf>>
             /\ \E t \in Threads :
                   /\ pc[t] = "idle"
                   /\ op'[t] \in {"load", "store"}
                   /\ ret'[t] = "PluginNotFound"
                   /\ val'[t][2] \notin Plugins
                   /\ ListsEachOnce(val'[t], Plugins)
                   /\ delta'[t] = 0
                   /\ log'[t] = <<>>
                   /\ cfg'[t] = NoCfg
                   /\ df'[t] = NoDf]_vars

\* C11 witness: after a view was loaded and cached, store_relation was
\* called with an unregistered name and failed.
C11_Witness ==
    /\ \E t \in Threads :
          /\ op[t] = "store" /\ pc[t] = "idle" /\ ret[t] = "PluginNotFound"
          /\ val[t] = <<"Plugin ", "nope", " not found; known plugins are: ",
                        "plain", ",", "upstream">>
    /\ REGISTERED_DF # <<>>
    /\ catalog # <<>>

\* C12: handle_count is never negative, whether or not a caller closes a
\* ConnectionHandle twice.
C12_DoubleCloseHarmless == handle_count >= 0

\* the thread that takes this step holds the lock
StepUnderLock == \E t \in Threads : lock.owner = t /\ pc'[t] # pc[t]

\* C13: every step that changes the shared handle (creation, close, reset
\* to null) or handle_count is taken by the thread that holds the lock.
C13_UpdatesUnderLock ==
    [][(conn' # conn \/ connOpen' # connOpen \/ handle_count' # handle_count)
          => StepUnderLock]_vars

\* thread t takes this step
Steps(t) == pc'[t] # pc[t]

\* C14: with keep_open true, as long as close() has closed nothing, the
\* one connection made stays the shared handle and stays open whatever
\* handle_count is; no step of a ConnectionHandle.close() touches it; a
\* handle() that finds a shared handle goes on without initialize_db. With
\* keep_open false, the decrement that brings handle_count to zero goes on,
\* holding the lock, to close(), and that close ends with the shared handle
\* closed and null. The teardown is entered in no other case.
C14_KeepOpenKeepsHandle ==
    /\ []((keep_open /\ closes = 0 /\ created >= 1) =>
             (created = 1 /\ conn = 1 /\ conn \in connOpen))
    /\ [][\A t \in Threads :
             /\ (keep_open /\ op[t] = "hclose" /\ Steps(t)) =>
                   UNCHANGED <<conn, connOpen, created, closes>>
             /\ (pc[t] = "h_init" /\ conn # None /\ Steps(t)) =>
                   /\ pc'[t] = "h_inc"
                   /\ UNCHANGED <<conn, connOpen, created>>
             /\ (~keep_open /\ pc[t] = "n_dec" /\ Steps(t) /\ handle_count' = 0) =>
                   /\ pc'[t] = "k_check"
                   /\ lock'.owner = t
             /\ (pc[t] = "n_dec" /\ pc'[t] = "k_check") =>
                   ~keep_open /\ handle_count' = 0
             /\ (op[t] = "hclose" /\ pc[t] \in {"k_check", "k_close", "k_null"}
                 /\ pc'[t] = "idle") =>
                   /\ conn' = None
                   /\ conn # None => conn \notin connOpen'
                   /\ lock'.owner # t
         ]_vars

\* C14 witness: keep_open is true, a handle was closed and handle_count is
\* back at zero, the connection made first is still the shared handle, and a
\* later handle() has passed the test for it without making another.
C14_Witness ==
    /\ keep_open
    /\ handle_count = 0
    /\ created = 1
    /\ conn = 1
    /\ conn \in connOpen
    /\ \E t \in Threads : op[t] = "hclose" /\ pc[t] = "idle" /\ ret[t] = "closed"
    /\ \E u \in Threads : op[u] = "handle" /\ pc[u] = "h_inc"

\* C15: handle() ends at the initialization only by the exception of
\* initialize_db; that step leaves the shared handle null, handle_count and
\* the number of connections made as they were, and the lock free. A
\* handle() that finds no shared handle either makes one or fails this way:
\* it never goes on without.
C15_InitFailureLeavesNull ==
    [][\A t \in Threads :
          /\ (pc[t] = "h_init" /\ pc'[t] = "idle") =>
                /\ ret'[t] = "InitError"
                /\ conn = None
                /\ conn' = None
                /\ UNCHANGED <<handle_count, created, connOpen>>
                /\ delta'[t] = 0
                /\ lock.owner = t
                /\ lock'.owner = None
          /\ (ret'[t] = "InitError" /\ ret[t] # "InitError") => pc[t] = "h_init"
          /\ (pc[t] = "h_init" /\ pc'[t] = "h_inc" /\ conn = None) =>
                /\ created' = created + 1
                /\ conn' # None
                /\ conn' \in connOpen'
      ]_vars

\* C15 witness: a handle() failed in initialize_db, and a later handle()
\* made the connection.
C15_Witness ==
    /\ \E t \in Threads : op[t] = "handle" /\ pc[t] = "idle" /\ ret[t] = "InitError"
    /\ \E u \in Threads : op[u] = "handle" /\ pc[u] = "h_inc"
    /\ created = 1
    /\ conn = 1
    /\ closes = 0
    /\ handle_count = 0

\* C16: execute ends in one step. If the wrapped cursor returns, execute
\* returns its result, and the wrapped cursor was given the statement alone
\* when no bindings were passed and the statement with the bindings
\* otherwise; if it raises a RuntimeError, execute raises DbtRuntimeError
\* whose one argument is the text of that error; an exception of another
\* class leaves execute as it is. A failure is never turned into a return.
C16_ExecuteNormalizes ==
    [][\A t \in Threads :
          (pc[t] = "x_exec" /\ Steps(t)) =>
              LET c == cfg[t]
                  callargs == IF c.bindings.kind = "None" THEN <<c.sql>>
                              ELSE <<c.sql, c.bindings>>
              IN /\ pc'[t] = "idle"
                 /\ c.cursor.kind = "returns" =>
                       /\ ret'[t] = "returned"
                       /\ val'[t] = <<"result">> \o callargs
                 /\ c.cursor.kind = "RuntimeError" =>
                       /\ ret'[t] = "DbtRuntimeError"
                       /\ val'[t] = <<StrOf(c.cursor.args)>>
                 /\ c.cursor.kind = "OtherError" =>
                       /\ ret'[t] = "OtherError"
                       /\ val'[t] = c.cursor.args
      ]_vars

\* C16 witness: an execute whose wrapped cursor raised RuntimeError("m1")
\* ended with DbtRuntimeError carrying that text, on a live connection.
C16_Witness ==
    /\ \E t \in Threads :
          /\ op[t] = "execute" /\ pc[t] = "idle" /\ own[t] = 1
          /\ ret[t] = "DbtRuntimeError" /\ val[t] = <<"m1">>
    /\ handle_count = 1
    /\ conn \in connOpen

\* the operations invoked by load_source itself: in a chained load, those
\* after the five of store_relation
LoadOps(o, l) == IF o = "store_load" THEN SubSeq(l, 6, Len(l)) ELSE l

\* how many times x occurs in the sequence l
Count(l, x) == Cardinality({i \in 1..Len(l) : l[i] = x})

\* C17: in save mode "overwrite" (also when the config sets none)
\* load_source executes no existence query and, unless CREATE SCHEMA
\* raises, goes on to the plugin's load whether or not the relation exists.
\* In the other two modes, when the query finds nothing, it goes on the same
\* way; it goes on in no other case. A load_source that gets as far as
\* closing its handle has executed the existence query exactly in modes
\* "ignore" and "error_if_exists", and after that, in every mode, exactly
\* one plugin load, the register and the create-or-replace, which has
\* written the relation with the chosen materialization.
C17_OverwriteSkipsExistenceCheck ==
    [][\A t \in Threads :
          InLoadSource(t) =>
              /\ (pc[t] = "ls_check" /\ Steps(t)
                  /\ SaveMode(cfg[t].config) = "overwrite") =>
                    /\ cfg[t].config.save_mode \in {"", "overwrite"}
                    /\ Count(LoadOps(op[t], log'[t]), "exists_query") = 0
                    /\ ret'[t] # "DbtRuntimeError" => pc'[t] = "ls_load"
              /\ (pc[t] = "ls_check" /\ Steps(t)
                  /\ SaveMode(cfg[t].config) # "overwrite"
                  /\ ~RelationExists(cfg[t].config)
                  /\ ret'[t] # "DbtRuntimeError") =>
                    /\ pc'[t] = "ls_load"
                    /\ Count(LoadOps(op[t], log'[t]), "exists_query") = 1
              /\ (pc[t] = "ls_check" /\ pc'[t] = "ls_load") =>
                    \/ SaveMode(cfg[t].config) = "overwrite"
                    \/ ~RelationExists(cfg[t].config)
              /\ (pc[t] = "ls_create" /\ pc'[t] = "hc_cursor") =>
                    LET c == cfg[t].config
                    IN /\ LoadOps(op[t], log'[t]) =
                             (IF c.schema # "" THEN <<"create_schema">> ELSE <<>>)
                             \o (IF SaveMode(c) \in {"ignore", "error_if_exists"}
                                 THEN <<"exists_query">> ELSE <<>>)
                             \o <<"load", "register", "create_or_replace">>
                       /\ Relation(c) \in DOMAIN catalog'
                       /\ catalog'[Relation(c)].kind = Materialization(cfg[t].plugin, c)
      ]_vars

\* C17 witness: a load_source in the default save mode has loaded and
\* registered the dataframe, with no existence query, for a relation that
\* is already there.
C17_Witness ==
    \E t \in Threads :
        /\ op[t] = "load"
        /\ pc[t] = "ls_create"
        /\ cfg[t].config.save_mode = ""
        /\ Relation(cfg[t].config) \in DOMAIN catalog
        /\ log[t] = <<"create_schema", "load", "register">>

\* the ConnectionHandles that handle() has returned and that are not closed
OpenHandles ==
    LET RECURSIVE S(_)
        S(n) == IF n = 0 THEN 0 ELSE own[n] + S(n - 1)
    IN S(NThreads)

\* C18: when every thread is idle and no ConnectionHandle was closed twice,
\* handle_count is the number of ConnectionHandles returned and not closed.
C18_CountEqualsOpenHandles ==
    (wellFormed /\ \A t \in Threads : pc[t] = "idle") => handle_count = OpenHandles

\* C19: under fair scheduling every thread is idle again and again: each
\* call of handle(), ConnectionHandle.close(), load_source and
\* store_relation it makes comes to its end, by return or by exception.
C19_EveryCallCompletes == \A t \in Threads : []<>(pc[t] = "idle")

\* C19 witness: a thread is tearing the shared handle down, holding the
\* lock, while another thread waits for the lock in handle().
C19_Witness ==
    \E t, u \in Threads :
        /\ pc[t] = "k_close"
        /\ lock.owner = t
        /\ pc[u] = "h_lock"
        /\ handle_count = 0

\* C20: a store_relation call, its chained load_source included, has at
\* every moment raised handle_count by 0 or 1; when it has returned
\* normally (with or without the chained load, which may have found the
\* relation in mode "ignore") it has raised it by 0; and a call that
\* returned without the chained load has invoked adapt_target_config, the
\* query, store and can_be_upstream_referenced, and not
\* create_source_config.
C20_StoreHoldsOneHandle ==
    \A t \in Threads :
        op[t] \in {"store", "store_load"} =>
            /\ delta[t] \in {0, 1}
            /\ (pc[t] = "idle" /\ ret[t] \in {"stored", "loaded", "ignored"}) =>
                  delta[t] = 0
            /\ (pc[t] = "idle" /\ ret[t] = "stored") =>
                  /\ op[t] = "store"
                  /\ log[t] = <<"adapt_target_config", "sql", "store",
                                "can_be_upstream_referenced">>

====
